---- MODULE Spec2Model ----
(***************************************************************************)
(* ccrun (src/docker/main.c): "ccrun run <command> <args>" launches a      *)
(* command in new mount/user/pid/uts namespaces.  Two processes per        *)
(* launch: the parent (main) and the cloned child (child), joined by a     *)
(* pipe and by the files the kernel exposes: /proc/<pid>/uid_map and       *)
(* gid_map, and the cgroup directory /sys/fs/cgroup/container-ccrun.       *)
(* Results of system calls that depend on the host (a failing fopen, a     *)
(* rejected write, the program's exit code) are chosen with \E.            *)
(***************************************************************************)
EXTENDS Integers, Sequences, FiniteSets, TLC

VARIABLES
    par,      \* par[i]: the parent process (main) of launch i
    chi,      \* chi[i]: the cloned process (child, then the executed program)
    procMap,  \* procMap[p]: the kernel's uid_map / gid_map of process id p
    cg,       \* the directory /sys/fs/cgroup/container-ccrun and its files
    realUid,  \* what getuid() returns in the parent
    realGid,  \* what getgid() returns in the parent
    inputs    \* the results the host and the program can give in this run

vars == <<par, chi, procMap, cg, realUid, realGid, inputs>>

----------------------------------------------------------------------------
(* Bounds of the model *)

\* process ids the kernel hands out are 2..MaxPid
MaxPid == 3

\* the executed program calls exit(n) with n in 0..MaxExit or n = 255
MaxExit == 2

Launches == {1, 2}

PIDs == 2..MaxPid

ExitArgs == (0..MaxExit) \cup {255}

\* signals that end the executed program: SIGABRT, SIGKILL, SIGSEGV
Signals == {6, 9, 11}

\* those whose default action writes a core file when the host allows one
\* (RLIMIT_CORE, a writable directory): SIGABRT, SIGSEGV
CoreSignals == {6, 11}

\* a uid_t / gid_t is 32 bits wide; it is kept as two 16-bit halves
Ids == { [hi |-> 0, lo |-> 0], [hi |-> 0, lo |-> 1000], [hi |-> 65535, lo |-> 65534] }

\* command lines, argv[0] first
ArgvSet == { <<"ccrun">>,
             <<"ccrun", "exec", "sh">>,
             <<"ccrun", "run">>,
             <<"ccrun", "run", "sh">>,
             <<"ccrun", "run", "echo", "hello">>,
             <<"ccrun", "run", "echo", "a", "b">> }

----------------------------------------------------------------------------
(* Values *)

None == <<>>

Some(x) == <<x>>

\* C indexing of argv: argv[k] for k >= 0
Arg(argv, k) == argv[k + 1]

\* argv + k, the vector that starts at argv[k]
ArgFrom(argv, k) == SubSeq(argv, k + 1, Len(argv))

\* printf("%d") of a 32-bit unsigned id: the bits are read as a signed int
FormatD(id) ==
    IF id.hi >= 32768 THEN (id.hi - 65536) * 65536 + id.lo
                      ELSE id.hi * 65536 + id.lo

\* snprintf(map_buf, ..., "0 %d 1", id): the three fields of the record
MapText(id) == <<0, FormatD(id), 1>>

\* the kernel parses a map record as three unsigned numbers, count > 0
KernelValidMap(text) == text[1] >= 0 /\ text[2] >= 0 /\ text[3] > 0

KernelMapRecord(text) == [inside |-> text[1], outside |-> text[2], count |-> text[3]]

\* the record's outside id is the 32-bit id
SameId(n, id) == id.hi < 32768 /\ n = id.hi * 65536 + id.lo

\* fprintf(f_cpu, "10000 100000")
CpuMaxText == <<10000, 100000>>

\* fprintf(f_mem, "67108864")
MemMaxText == <<67108864>>

\* getpid() in the child: the first process of the new pid namespace
ChildGetpid == 1

\* wait status of a process that called exit(n)
ExitStatus(n) == (n % 256) * 256

\* wait status of a process killed by signal s: the signal in the low seven
\* bits, and bit 0x80 set when a core file was written
SignalStatus(s, core) == (s % 128) + (IF core THEN 128 ELSE 0)

\* whether the kernel writes a core file for a process killed by signal s
CoreWritten(s) == IF s \in CoreSignals THEN BOOLEAN ELSE {FALSE}

WIFEXITED(status) == status % 128 = 0

WEXITSTATUS(status) == (status \div 256) % 256

----------------------------------------------------------------------------
(* Initial state *)

IdlePar == [pc |-> "idle", argv |-> <<>>, stack |-> "none", fdR |-> FALSE, fdW |-> FALSE,
            pid |-> None, status |-> None, code |-> None, err |-> "",
            out |-> "", mapOpenFailed |-> FALSE, mapRejected |-> FALSE,
            rmdirs |-> 0, rmdirCalls |-> 0, removed |-> None, pipeBytes |-> 0,
            absentAtRmdir |-> FALSE]

NoChild == [pc |-> "none", pid |-> None, fdR |-> FALSE, fdW |-> FALSE,
            wstatus |-> None, err |-> "", prog |-> None, execArgv |-> None,
            done |-> <<>>, created |-> FALSE, reaped |-> FALSE,
            readRet |-> None, limitFailed |-> FALSE, dirPresent |-> FALSE]

NoMap == [uid |-> {}, gid |-> {}, uidWrites |-> 0, gidWrites |-> 0]

NoCgroup == [exists |-> FALSE, cpuMax |-> None, memMax |-> None, procs |-> {}, owner |-> None]

\* a directory left behind by an earlier launch: no limits, no process in it
StaleCgroup == [NoCgroup EXCEPT !.exists = TRUE]

\* every result: calls other than those on the cgroup files may fail or
\* succeed, the program ends with any exit code or signal of the model
AllInputs == [ok |-> BOOLEAN, exits |-> ExitArgs, signals |-> Signals]

\* calls other than those on the cgroup files succeed, the program ends with
\* exit(0) or is killed by SIGKILL
FewInputs == [ok |-> {TRUE}, exits |-> {0}, signals |-> {9}]

InitOf(running) ==
    /\ par \in [Launches -> {IdlePar} \cup {[IdlePar EXCEPT !.pc = "start", !.argv = a] : a \in ArgvSet}]
    /\ \A i \in Launches : par[i].pc = "start" <=> i \in running
    /\ chi = [i \in Launches |-> NoChild]
    /\ procMap = [p \in PIDs |-> NoMap]
    /\ cg \in {NoCgroup, StaleCgroup}
    /\ realUid \in Ids
    /\ realGid \in Ids

\* one launch on the host
Init == InitOf({1}) /\ inputs = AllInputs

----------------------------------------------------------------------------
(* Process termination *)

\* exit() of a parent: the kernel closes its descriptors
ParentExit(p, code, msg) ==
    [p EXCEPT !.pc = "exited", !.code = Some(code), !.err = msg, !.fdR = FALSE, !.fdW = FALSE]

\* error_exit(msg) in the parent
ParentErrorExit(p, msg) == ParentExit(p, 1, msg)

\* a child that ends with wait status ws: its descriptors are closed
ChildEnd(c, ws, msg) ==
    [c EXCEPT !.pc = "terminated", !.wstatus = Some(ws), !.err = msg, !.fdR = FALSE, !.fdW = FALSE]

\* faulty variant: error_exit ends with exit(errno), ENOENT, instead of exit(1)
ChildErrorExitErrno(c, msg) == ChildEnd(c, ExitStatus(2), msg)

\* error_exit(msg) in the child
ChildErrorExit(c, msg) == ChildEnd(c, ExitStatus(1), msg)

\* a process that ends leaves the cgroup it is in
CgroupLeave(g, c) == [g EXCEPT !.procs = @ \ {c.pid[1]}]

----------------------------------------------------------------------------
(* The parent: main *)

\* the three argument checks of main, each ending in usage()
UsageError(argv) ==
    IF Len(argv) < 2 THEN "Error: No arguments specified."
    ELSE IF Arg(argv, 1) # "run" THEN "Error: Unknown option."
    ELSE IF Len(argv) < 3 THEN "Error: No command specified to execute."
    ELSE ""

MainArgs(i) ==
    /\ par[i].pc = "start"
    /\ par' = [par EXCEPT ![i] =
                 IF UsageError(@.argv) # "" THEN ParentExit(@, 1, UsageError(@.argv))
                                            ELSE [@ EXCEPT !.pc = "malloc"]]
    /\ UNCHANGED <<chi, procMap, cg, realUid, realGid, inputs>>

\* char *stack = malloc(STACK_SIZE)
MainMalloc(i) ==
    /\ par[i].pc = "malloc"
    /\ \E ok \in inputs.ok :
         par' = [par EXCEPT ![i] =
                   IF ok THEN [@ EXCEPT !.pc = "pipe", !.stack = "allocated"]
                         ELSE ParentErrorExit(@, "Memory allocation failed for stack")]
    /\ UNCHANGED <<chi, procMap, cg, realUid, realGid, inputs>>

\* faulty variant: a failed pipe() is reported but main goes on
MainPipeUnchecked(i) ==
    /\ par[i].pc = "pipe"
    /\ \E ok \in inputs.ok :
         par' = [par EXCEPT ![i] =
                   IF ok THEN [@ EXCEPT !.pc = "clone", !.fdR = TRUE, !.fdW = TRUE]
                         ELSE [@ EXCEPT !.pc = "clone", !.err = "Failed to create pipe"]]
    /\ UNCHANGED <<chi, procMap, cg, realUid, realGid, inputs>>

\* pipe(arguments.pipe_fd)
MainPipe(i) ==
    /\ par[i].pc = "pipe"
    /\ \E ok \in inputs.ok :
         par' = [par EXCEPT ![i] =
                   IF ok THEN [@ EXCEPT !.pc = "clone", !.fdR = TRUE, !.fdW = TRUE]
                         ELSE ParentErrorExit(@, "Failed to create pipe")]
    /\ UNCHANGED <<chi, procMap, cg, realUid, realGid, inputs>>

\* process ids no process of the model has had
FreePids == PIDs \ { chi[j].pid[1] : j \in { k \in Launches : chi[k].pid # None } }

\* clone(child, ...): the child starts with copies of both pipe descriptors
MainClone(i) ==
    /\ par[i].pc = "clone"
    /\ \/ \E p \in FreePids :
            /\ par' = [par EXCEPT ![i] = [@ EXCEPT !.pc = "uid_map", !.pid = Some(p)]]
            /\ chi' = [chi EXCEPT ![i] =
                         [@ EXCEPT !.pc = "close_w", !.pid = Some(p), !.fdR = TRUE, !.fdW = TRUE]]
       \/ /\ FALSE \in inputs.ok
          /\ par' = [par EXCEPT ![i] =
                       ParentErrorExit(@, "Failed to create child process using clone")]
          /\ UNCHANGED chi
    /\ UNCHANGED <<procMap, cg, realUid, realGid, inputs>>

\* what update_map returns once fopen has succeeded: the results of fprintf
\* and fclose are not looked at
UpdateMapReturn == 0

\* the kernel takes a record when it is well formed, the map is still empty
\* and the writer is allowed to set it
KernelAccepts(old, text, allowed) == allowed /\ KernelValidMap(text) /\ old = {}

\* snprintf(map_buf, MAP_BUF_SIZE, "0 %d 1", getuid())
UidMapText == MapText(realUid)

\* faulty variant: the gid record is built from getuid()
GidMapTextFromUid == MapText(realUid)

\* snprintf(map_buf, MAP_BUF_SIZE, "0 %d 1", getgid())
GidMapText == MapText(realGid)

\* write_uid_gid_mappings, first half: /proc/<pid>/uid_map
MainUidMap(i) ==
    /\ par[i].pc = "uid_map"
    /\ LET p == par[i].pid[1]
           text == UidMapText
       IN \E open \in inputs.ok, allowed \in inputs.ok :
            IF ~open
            THEN /\ par' = [par EXCEPT ![i] =
                              [ParentErrorExit(@, "Failed to open map file for writing")
                                 EXCEPT !.mapOpenFailed = TRUE]]
                 /\ UNCHANGED procMap
            ELSE LET ok == KernelAccepts(procMap[p].uid, text, allowed)
                 IN /\ procMap' = [procMap EXCEPT
                                     ![p].uid = IF ok THEN {KernelMapRecord(text)} ELSE @,
                                     ![p].uidWrites = @ + 1]
                    /\ par' = [par EXCEPT ![i] =
                                 IF UpdateMapReturn # 0
                                 THEN ParentErrorExit(@, "Failed to update UID map")
                                 ELSE [@ EXCEPT !.pc = "gid_map",
                                                !.mapRejected = @ \/ ~ok]]
    /\ UNCHANGED <<chi, cg, realUid, realGid, inputs>>

\* write_uid_gid_mappings, second half: /proc/<pid>/gid_map
MainGidMap(i) ==
    /\ par[i].pc = "gid_map"
    /\ LET p == par[i].pid[1]
           text == GidMapText
       IN \E open \in inputs.ok, allowed \in inputs.ok :
            IF ~open
            THEN /\ par' = [par EXCEPT ![i] =
                              [ParentErrorExit(@, "Failed to open map file for writing")
                                 EXCEPT !.mapOpenFailed = TRUE]]
                 /\ UNCHANGED procMap
            ELSE LET ok == KernelAccepts(procMap[p].gid, text, allowed)
                 IN /\ procMap' = [procMap EXCEPT
                                     ![p].gid = IF ok THEN {KernelMapRecord(text)} ELSE @,
                                     ![p].gidWrites = @ + 1]
                    /\ par' = [par EXCEPT ![i] =
                                 IF UpdateMapReturn # 0
                                 THEN ParentErrorExit(@, "Failed to update GID map")
                                 ELSE [@ EXCEPT !.pc = "close",
                                                !.mapRejected = @ \/ ~ok]]
    /\ UNCHANGED <<chi, cg, realUid, realGid, inputs>>

\* faulty variant: main writes a token byte before it closes the write end
MainCloseWritesToken(i) ==
    /\ par[i].pc = "close"
    /\ par' = [par EXCEPT ![i] = [@ EXCEPT !.pc = "wait", !.fdW = FALSE, !.pipeBytes = @ + 1]]
    /\ UNCHANGED <<chi, procMap, cg, realUid, realGid, inputs>>

\* faulty variant: main frees the stack when it closes the write end
MainCloseFreesStack(i) ==
    /\ par[i].pc = "close"
    /\ par' = [par EXCEPT ![i] = [@ EXCEPT !.pc = "wait", !.fdW = FALSE, !.stack = "freed"]]
    /\ UNCHANGED <<chi, procMap, cg, realUid, realGid, inputs>>

\* close(arguments.pipe_fd[1])
MainClose(i) ==
    /\ par[i].pc = "close"
    /\ par' = [par EXCEPT ![i] = [@ EXCEPT !.pc = "wait", !.fdW = FALSE]]
    /\ UNCHANGED <<chi, procMap, cg, realUid, realGid, inputs>>

\* waitpid(pid, &status, 0): blocks until the child has ended; it fails
\* (ECHILD) when the host reaps children itself (SIGCHLD ignored)
MainWait(i) ==
    /\ par[i].pc = "wait"
    /\ chi[i].pc = "terminated"
    /\ \/ /\ par' = [par EXCEPT ![i] = [@ EXCEPT !.pc = "rmdir", !.status = chi[i].wstatus]]
          /\ chi' = [chi EXCEPT ![i] = [@ EXCEPT !.reaped = TRUE]]
       \/ /\ par' = [par EXCEPT ![i] = ParentErrorExit(@, "Failed to wait for child process")]
          /\ UNCHANGED chi
    /\ UNCHANGED <<procMap, cg, realUid, realGid, inputs>>

\* rmdir(cgroup_path): 0, or -1 with EACCES (the host refuses the caller, be
\* the directory there or not: no permission, a read-only mount), ENOENT (no
\* directory) or EBUSY (a process is in the cgroup)
RmdirErrno(g, allowed) ==
    IF ~allowed THEN "EACCES"
    ELSE IF ~g.exists THEN "ENOENT"
    ELSE IF g.procs # {} THEN "EBUSY"
    ELSE "OK"

\* faulty variant: main treats a failed removal as fatal
MainRmdirFatal(i) ==
    /\ par[i].pc = "rmdir"
    /\ \E allowed \in BOOLEAN :
       LET e == RmdirErrno(cg, allowed)
       IN /\ cg' = IF e = "OK" THEN NoCgroup ELSE cg
          /\ par' = [par EXCEPT ![i] =
                       IF e = "OK"
                       THEN [@ EXCEPT !.pc = "free", !.rmdirCalls = @ + 1, !.rmdirs = @ + 1,
                                      !.absentAtRmdir = ~cg.exists,
                                      !.removed = Some(cg.owner)]
                       ELSE [ParentErrorExit(@, "Error removing cgroup directory")
                               EXCEPT !.rmdirCalls = @ + 1,
                                      !.absentAtRmdir = ~cg.exists,
                                      !.out = IF e = "ENOENT"
                                              THEN "Cgroup directory does not exist."
                                              ELSE "Error removing cgroup directory"]]
    /\ UNCHANGED <<chi, procMap, realUid, realGid, inputs>>

\* remove_cgroup_directory(); main ignores what it returns
MainRmdir(i) ==
    /\ par[i].pc = "rmdir"
    /\ \E allowed \in BOOLEAN :
       LET e == RmdirErrno(cg, allowed)
       IN /\ cg' = IF e = "OK" THEN NoCgroup ELSE cg
          /\ par' = [par EXCEPT ![i] =
                       [@ EXCEPT !.pc = "free",
                                 !.rmdirCalls = @ + 1,
                                 !.absentAtRmdir = ~cg.exists,
                                 !.rmdirs = IF e = "OK" THEN @ + 1 ELSE @,
                                 !.removed = IF e = "OK" THEN Some(cg.owner) ELSE @,
                                 !.out = IF e = "OK" THEN @
                                         ELSE IF e = "ENOENT" THEN "Cgroup directory does not exist."
                                         ELSE "Error removing cgroup directory"]]
    /\ UNCHANGED <<chi, procMap, realUid, realGid, inputs>>

\* free(stack)
MainFree(i) ==
    /\ par[i].pc = "free"
    /\ par' = [par EXCEPT ![i] = [@ EXCEPT !.pc = "status", !.stack = "freed"]]
    /\ UNCHANGED <<chi, procMap, cg, realUid, realGid, inputs>>

\* faulty variant: main returns status itself, not WEXITSTATUS(status)
MainReturnRawStatus(p) ==
    IF WIFEXITED(p.status[1])
    THEN ParentExit(p, p.status[1] % 256, "")
    ELSE ParentErrorExit(p, "Child process did not exit normally")

\* faulty variant: main returns WEXITSTATUS(status) without asking WIFEXITED
MainReturnUnchecked(p) == ParentExit(p, WEXITSTATUS(p.status[1]), "")

\* if (WIFEXITED(status)) return WEXITSTATUS(status); else error_exit(...)
MainReturn(p) ==
    IF WIFEXITED(p.status[1])
    THEN ParentExit(p, WEXITSTATUS(p.status[1]), "")
    ELSE ParentErrorExit(p, "Child process did not exit normally")

MainStatus(i) ==
    /\ par[i].pc = "status"
    /\ par' = [par EXCEPT ![i] = MainReturn(@)]
    /\ UNCHANGED <<chi, procMap, cg, realUid, realGid, inputs>>

----------------------------------------------------------------------------
(* The cloned process: child *)

\* faulty variant: the child goes to the read with its copy of the write end
\* still open
ChildCloseWKeepsOpen(i) ==
    /\ chi[i].pc = "close_w"
    /\ chi' = [chi EXCEPT ![i] = [@ EXCEPT !.pc = "read"]]
    /\ UNCHANGED <<par, procMap, cg, realUid, realGid, inputs>>

\* close(arguments->pipe_fd[1]): the child gives up its copy of the write end
ChildCloseW(i) ==
    /\ chi[i].pc = "close_w"
    /\ chi' = [chi EXCEPT ![i] = [@ EXCEPT !.pc = "read", !.fdW = FALSE]]
    /\ UNCHANGED <<par, procMap, cg, realUid, realGid, inputs>>

\* the processes that hold the pipe's write end open
PipeWriters(i) ==
    (IF par[i].fdW THEN {"parent"} ELSE {}) \cup (IF chi[i].fdW THEN {"child"} ELSE {})

\* what read(pipe_fd[0], &ch, 1) can return: 1 when the pipe holds a byte;
\* 0 at end of file, which needs every write end closed; -1 on an error
ReadReturns(i) ==
    (IF par[i].pipeBytes > 0 THEN {1} ELSE IF PipeWriters(i) = {} THEN {0} ELSE {})
        \cup (IF FALSE \in inputs.ok THEN {0 - 1} ELSE {})

\* if (read(...) != 0) error_exit(...); close(arguments->pipe_fd[0])
ChildRead(i) ==
    /\ chi[i].pc = "read"
    /\ \E r \in ReadReturns(i) :
         /\ chi' = [chi EXCEPT ![i] =
                      IF r # 0 THEN [ChildErrorExit(@, "Failed to read from pipe in child")
                                       EXCEPT !.readRet = Some(r)]
                               ELSE [@ EXCEPT !.pc = "mkdir", !.fdR = FALSE,
                                              !.readRet = Some(r),
                                              !.done = Append(@, "read")]]
         /\ par' = [par EXCEPT ![i].pipeBytes = IF r = 1 THEN @ - 1 ELSE @]
    /\ UNCHANGED <<procMap, cg, realUid, realGid, inputs>>

\* faulty variant: mkdir succeeds on a directory that is already there
MkdirReturnOnExisting(g, allowed) == IF ~allowed THEN 0 - 1 ELSE 0

\* mkdir(cgroup_path, 0777): -1 when the directory is there (EEXIST) or the
\* host refuses
MkdirReturn(g, allowed) == IF g.exists \/ ~allowed THEN 0 - 1 ELSE 0

\* faulty variant: the result of mkdir is not looked at
MkdirFailedIgnored(ret) == FALSE

\* write_limits: if (mkdir(cgroup_path, 0777) != 0) error_exit(...)
MkdirFailed(ret) == ret # 0

ChildMkdir(i) ==
    /\ chi[i].pc = "mkdir"
    /\ \E allowed \in BOOLEAN :
         LET ret == MkdirReturn(cg, allowed)
         IN /\ cg' = IF ret = 0 THEN [cg EXCEPT !.exists = TRUE, !.owner = Some(i)] ELSE cg
            /\ chi' = [chi EXCEPT ![i] =
                         IF MkdirFailed(ret)
                         THEN [ChildErrorExit(@, "Failed to create cgroup directory")
                                 EXCEPT !.limitFailed = TRUE, !.dirPresent = cg.exists]
                         ELSE [@ EXCEPT !.pc = "cpu", !.created = TRUE,
                                        !.done = Append(@, "mkdir")]]
    /\ UNCHANGED <<par, procMap, realUid, realGid, inputs>>

\* fopen(<cgroup_path>/<file>, "w") needs the directory
CgroupFopen(g, allowed) == g.exists /\ allowed

\* write_limits: cpu.max; the results of fprintf and fclose are not looked at
ChildCpuMax(i) ==
    /\ chi[i].pc = "cpu"
    /\ \E open \in BOOLEAN, accepted \in BOOLEAN :
         IF ~CgroupFopen(cg, open)
         THEN /\ chi' = [chi EXCEPT ![i] = [ChildErrorExit(@, "Failed to open cpu.max file")
                                        EXCEPT !.limitFailed = TRUE]]
              /\ cg' = CgroupLeave(cg, chi[i])
         ELSE /\ chi' = [chi EXCEPT ![i] = [@ EXCEPT !.pc = "mem", !.done = Append(@, "cpu.max"),
                                                 !.limitFailed = @ \/ ~accepted]]
              /\ cg' = [cg EXCEPT !.cpuMax = IF accepted THEN CpuMaxText ELSE @]
    /\ UNCHANGED <<par, procMap, realUid, realGid, inputs>>

\* write_limits: memory.max
ChildMemMax(i) ==
    /\ chi[i].pc = "mem"
    /\ \E open \in BOOLEAN, accepted \in BOOLEAN :
         IF ~CgroupFopen(cg, open)
         THEN /\ chi' = [chi EXCEPT ![i] = [ChildErrorExit(@, "Failed to open memory.max file")
                                        EXCEPT !.limitFailed = TRUE]]
              /\ cg' = CgroupLeave(cg, chi[i])
         ELSE /\ chi' = [chi EXCEPT ![i] = [@ EXCEPT !.pc = "procs", !.done = Append(@, "memory.max"),
                                                 !.limitFailed = @ \/ ~accepted]]
              /\ cg' = [cg EXCEPT !.memMax = IF accepted THEN MemMaxText ELSE @]
    /\ UNCHANGED <<par, procMap, realUid, realGid, inputs>>

\* the kernel looks a written process id up in the writer's pid namespace,
\* where the child is process 1
KernelResolveVpid(c, v) == IF v = 1 THEN {c.pid[1]} ELSE {}

\* write_limits: fprintf(f_procs, "%d", pid) to cgroup.procs, pid = getpid()
ChildProcs(i) ==
    /\ chi[i].pc = "procs"
    /\ \E open \in BOOLEAN, accepted \in BOOLEAN :
         IF ~CgroupFopen(cg, open)
         THEN /\ chi' = [chi EXCEPT ![i] = [ChildErrorExit(@, "Failed to open cgroup.procs file")
                                        EXCEPT !.limitFailed = TRUE]]
              /\ cg' = CgroupLeave(cg, chi[i])
         ELSE /\ chi' = [chi EXCEPT ![i] = [@ EXCEPT !.pc = "hostname", !.done = Append(@, "cgroup.procs"),
                                                 !.limitFailed = @ \/ ~accepted]]
              /\ cg' = [cg EXCEPT !.procs = IF accepted
                                            THEN @ \cup KernelResolveVpid(chi[i], ChildGetpid)
                                            ELSE @]
    /\ UNCHANGED <<par, procMap, realUid, realGid, inputs>>

\* a stage of child that is one system call: on -1 error_exit(msg)
ChildStage(i, from, to, msg) ==
    /\ chi[i].pc = from
    /\ \E ok \in inputs.ok :
         IF ok THEN /\ chi' = [chi EXCEPT ![i] = [@ EXCEPT !.pc = to, !.done = Append(@, from)]]
                    /\ UNCHANGED cg
               ELSE /\ chi' = [chi EXCEPT ![i] = ChildErrorExit(@, msg)]
                    /\ cg' = CgroupLeave(cg, chi[i])
    /\ UNCHANGED <<par, procMap, realUid, realGid, inputs>>

\* sethostname("container", 9)
ChildHostname(i) == ChildStage(i, "hostname", "chroot", "Failed to set hostname")

\* faulty variant: a failed chroot is reported but the child goes on
ChildChrootUnchecked(i) ==
    /\ chi[i].pc = "chroot"
    /\ \E ok \in inputs.ok :
         chi' = [chi EXCEPT ![i] =
                   IF ok THEN [@ EXCEPT !.pc = "chdir", !.done = Append(@, "chroot")]
                         ELSE [@ EXCEPT !.pc = "chdir", !.err = "Failed to change root directory"]]
    /\ UNCHANGED <<par, procMap, cg, realUid, realGid, inputs>>

\* chroot("alpine/")
ChildChroot(i) == ChildStage(i, "chroot", "chdir", "Failed to change root directory")

\* chdir("/")
ChildChdir(i) == ChildStage(i, "chdir", "mount", "Failed to change directory to new root")

\* mount("proc", "/proc", "proc", 0, NULL)
ChildMount(i) == ChildStage(i, "mount", "exec", "Failed to mount /proc filesystem")

\* faulty variant: the vector starts one token late
ExecArgvOffByOne(argv) == IF Len(argv) > 3 THEN ArgFrom(argv, 3) ELSE <<Arg(argv, 2)>>

\* the vector given to execvp: argv + 2 when argc > 3, else {argv[2], NULL}
ExecArgv(argv) == IF Len(argv) > 3 THEN ArgFrom(argv, 2) ELSE <<Arg(argv, 2)>>

\* execvp(arguments->argv[2], ...); when it returns, error_exit("execvp failed")
ChildExec(i) ==
    /\ chi[i].pc = "exec"
    /\ \E ok \in inputs.ok :
         IF ok THEN /\ chi' = [chi EXCEPT ![i] =
                                 [@ EXCEPT !.pc = "running", !.done = Append(@, "exec"),
                                           !.execArgv = Some(ExecArgv(par[i].argv))]]
                    /\ UNCHANGED cg
               ELSE /\ chi' = [chi EXCEPT ![i] = ChildErrorExit(@, "execvp failed")]
                    /\ cg' = CgroupLeave(cg, chi[i])
    /\ UNCHANGED <<par, procMap, realUid, realGid, inputs>>

\* the executed program calls exit(n)
ProgramExit(i) ==
    /\ chi[i].pc = "running"
    /\ \E n \in inputs.exits :
         chi' = [chi EXCEPT ![i] = [ChildEnd(@, ExitStatus(n), "") EXCEPT !.prog = Some(n)]]
    /\ cg' = CgroupLeave(cg, chi[i])
    /\ UNCHANGED <<par, procMap, realUid, realGid, inputs>>

\* the child, or the program it executed, is killed by a signal: at any
\* point from clone on
ProgramSignal(i) ==
    /\ chi[i].pc \notin {"none", "terminated"}
    /\ \E s \in inputs.signals : \E core \in CoreWritten(s) :
         chi' = [chi EXCEPT ![i] = ChildEnd(@, SignalStatus(s, core), "")]
    /\ cg' = CgroupLeave(cg, chi[i])
    /\ UNCHANGED <<par, procMap, realUid, realGid, inputs>>

----------------------------------------------------------------------------
(* Specifications *)

ParentStep(i) ==
    \/ MainArgs(i) \/ MainMalloc(i) \/ MainPipe(i) \/ MainClone(i)
    \/ MainUidMap(i) \/ MainGidMap(i) \/ MainClose(i) \/ MainWait(i)
    \/ MainRmdir(i) \/ MainFree(i) \/ MainStatus(i)

ChildStep(i) ==
    \/ ChildCloseW(i) \/ ChildRead(i) \/ ChildMkdir(i) \/ ChildCpuMax(i)
    \/ ChildMemMax(i) \/ ChildProcs(i) \/ ChildHostname(i) \/ ChildChroot(i)
    \/ ChildChdir(i) \/ ChildMount(i) \/ ChildExec(i)

ProgramStep(i) == ProgramExit(i) \/ ProgramSignal(i)

Next == \E i \in Launches : ParentStep(i) \/ ChildStep(i) \/ ProgramStep(i)

Spec == Init /\ [][Next]_vars

\* two launches at the same time on one host, same user, same command line
InitConc ==
    /\ InitOf(Launches)
    /\ \A i \in Launches : par[i].argv = <<"ccrun", "run", "sh">>
    /\ realUid = [hi |-> 0, lo |-> 0]
    /\ realGid = [hi |-> 0, lo |-> 0]
    /\ inputs = FewInputs

SpecConc == InitConc /\ [][Next]_vars

\* both processes of a launch are scheduled: a step that stays possible is taken
FairSpec == Spec /\ \A i \in Launches : WF_vars(ParentStep(i)) /\ WF_vars(ChildStep(i))

\* a step of the child other than a read that returns an error: a read on a
\* pipe that holds no byte and has a writer blocks, nothing makes it return
ChildUnblockedStep(i) == ChildStep(i) /\ chi'[i].readRet # Some(0 - 1)

\* both processes are scheduled, a blocked read stays blocked, and the program
\* that was started ends
FairRunSpec ==
    Spec /\ \A i \in Launches :
               /\ WF_vars(ParentStep(i))
               /\ WF_vars(ChildUnblockedStep(i))
               /\ WF_vars(ProgramExit(i))

----------------------------------------------------------------------------
(* Vocabulary of the properties *)

Range(seq) == { seq[k] : k \in 1..Len(seq) }

\* the kernel holds both records of the child of launch i
MapCommitted(i) ==
    /\ par[i].pid # None
    /\ procMap[par[i].pid[1]].uid # {}
    /\ procMap[par[i].pid[1]].gid # {}

\* the child of launch i got past the read on the pipe
PastGate(i) == "read" \in Range(chi[i].done)

\* the child of launch i has ended, by exit or by a signal
ChildExitedNormally(i) == chi[i].pc = "terminated" /\ WIFEXITED(chi[i].wstatus[1])

ChildKilled(i) == chi[i].pc = "terminated" /\ ~WIFEXITED(chi[i].wstatus[1])

ParentExited(i) == par[i].pc = "exited"

\* both processes of launch i are over
LaunchFinished(i) == ParentExited(i) /\ chi[i].pc \in {"none", "terminated"}

----------------------------------------------------------------------------
(* C1 *)

\* C1, as claimed: whenever the map is committed, every stage of the child
\* succeeded and the program called exit(k), 0 <= k <= 255, main ends with
\* exit code k.
C1_ExitCodeIsProgramCode ==
    \A i \in Launches :
        (MapCommitted(i) /\ chi[i].prog # None /\ ParentExited(i))
            => par[i].code = chi[i].prog

\* C1, amended: the same, for launches whose waitpid succeeded; when waitpid
\* fails main ends through error_exit with code 1 whatever the program did.
C1_ExitCodeIsProgramCodeWhenReaped ==
    \A i \in Launches :
        (MapCommitted(i) /\ chi[i].prog # None /\ chi[i].reaped /\ ParentExited(i))
            => par[i].code = chi[i].prog

C1_Witness ==
    \E i \in Launches :
        /\ MapCommitted(i) /\ chi[i].reaped /\ ParentExited(i)
        /\ chi[i].prog = Some(255) /\ par[i].code = Some(255)

----------------------------------------------------------------------------
(* C2 *)

\* C2, as claimed: the child is past the read on the pipe only if the kernel
\* holds both the uid and the gid record of the child.
C2_GateOnlyAfterCommit ==
    \A i \in Launches : PastGate(i) => MapCommitted(i)

----------------------------------------------------------------------------
(* C3 *)

\* C3, as claimed: when the child created the cgroup directory, the parent
\* removes it at most once, calls rmdir only after waitpid reaped the child,
\* and the directory is gone once both processes of the launch are over.
C3_CreatedDirectoryRemovedOnce ==
    \A i \in Launches :
        chi[i].created =>
            /\ par[i].rmdirs <= 1
            /\ (par[i].rmdirCalls > 0 => chi[i].reaped)
            /\ (LaunchFinished(i) => ~cg.exists)

----------------------------------------------------------------------------
(* C4 *)

\* C4, as claimed: from the return of clone in the parent until the parent
\* calls rmdir, the cgroup directory exists.
C4_DirectoryExistsFromClone ==
    \A i \in Launches :
        (par[i].pid # None /\ par[i].rmdirCalls = 0 /\ ~ParentExited(i)) => cg.exists

\* C4, amended: in a launch that runs alone, from the child's successful
\* mkdir until the parent calls rmdir, the cgroup directory exists.
C4_DirectoryExistsFromMkdir ==
    \A i \in Launches :
        (chi[i].created /\ par[i].rmdirCalls = 0) => cg.exists

C4_Witness ==
    \E i \in Launches :
        /\ chi[i].created /\ chi[i].pc = "terminated"
        /\ par[i].pc = "rmdir" /\ cg.exists

----------------------------------------------------------------------------
(* C5 *)

\* C5, as claimed: when the child is at execvp or the program runs, the
\* directory exists, cpu.max holds 10000 100000, memory.max holds 67108864
\* and the child is in cgroup.procs.
C5_LimitsSetAtExec ==
    \A i \in Launches :
        chi[i].pc \in {"exec", "running"} =>
            /\ cg.exists
            /\ cg.cpuMax = CpuMaxText
            /\ cg.memMax = MemMaxText
            /\ chi[i].pid[1] \in cg.procs

----------------------------------------------------------------------------
(* C6 *)

ChrootFailed(i) == chi[i].err = "Failed to change root directory"

\* C6: when chroot fails the child ends by exit with a nonzero code, having
\* done neither chdir, mount nor execvp; a parent that reaped it saw a normal
\* exit, and a parent that has ended has the child's exit code as its own.
C6_ChrootFailureIsNormalNonzeroExit ==
    \A i \in Launches :
        ChrootFailed(i) =>
            /\ ChildExitedNormally(i)
            /\ WEXITSTATUS(chi[i].wstatus[1]) # 0
            /\ Range(chi[i].done) \cap {"chroot", "chdir", "mount", "exec"} = {}
            /\ chi[i].execArgv = None
            /\ (chi[i].reaped => par[i].status = chi[i].wstatus)
            /\ (ParentExited(i) => par[i].code = Some(WEXITSTATUS(chi[i].wstatus[1])))

C6_Witness ==
    \E i \in Launches : ChrootFailed(i) /\ chi[i].reaped /\ ParentExited(i)

----------------------------------------------------------------------------
(* C7 *)

ExecFailed(i) == chi[i].err = "execvp failed"

\* C7: when execvp returns the child ends by exit(1); main then ends with
\* exit code 1, not through the abnormal-termination branch, and it does end.
C7_ExecFailureExitsOne ==
    /\ [](\A i \in Launches :
            ExecFailed(i) =>
                /\ chi[i].pc = "terminated"
                /\ chi[i].wstatus = Some(ExitStatus(1))
                /\ (ParentExited(i) =>
                      /\ par[i].code = Some(1)
                      /\ par[i].err # "Child process did not exit normally"))
    /\ \A i \in Launches : ExecFailed(i) ~> ParentExited(i)

C7_Witness ==
    \E i \in Launches :
        /\ ExecFailed(i) /\ chi[i].reaped /\ ParentExited(i)
        /\ par[i].err = "" /\ par[i].code = Some(1)

----------------------------------------------------------------------------
(* C8 *)

\* C8: when the child was killed by a signal, main ends with code 1 and a
\* diagnostic (after a successful waitpid: "Child process did not exit
\* normally"), while a reaped child's nonzero exit code is returned with no
\* diagnostic of main: the two outcomes differ.
C8_AbnormalEndIsFatalError ==
    \A i \in Launches :
        /\ (ChildKilled(i) /\ ParentExited(i)) =>
              /\ par[i].code = Some(1)
              /\ par[i].err # ""
              /\ (chi[i].reaped => par[i].err = "Child process did not exit normally")
        /\ (ChildExitedNormally(i) /\ chi[i].reaped /\ ParentExited(i)) =>
              /\ par[i].err = ""
              /\ par[i].code = Some(WEXITSTATUS(chi[i].wstatus[1]))

C8_Witness ==
    \E i \in Launches :
        /\ ChildKilled(i) /\ chi[i].reaped /\ ParentExited(i)
        /\ par[i].status = Some(SignalStatus(11, TRUE))

----------------------------------------------------------------------------
(* C9 *)

\* C9, as claimed: once the write of a mapping failed, be it the fopen or
\* the record itself, main is over with a nonzero code and a diagnostic, and
\* has neither closed the pipe by close() nor waited.
C9_MapFailureIsFatal ==
    \A i \in Launches :
        (par[i].mapOpenFailed \/ par[i].mapRejected) =>
            /\ ParentExited(i)
            /\ par[i].code # Some(0)
            /\ par[i].err # ""
            /\ par[i].status = None

----------------------------------------------------------------------------
(* C10 *)

\* C10: every record the kernel holds in a uid_map (gid_map) maps inside id 0
\* to the real uid (gid) of the parent with count 1, in the map of a cloned
\* child and written by that child's parent; a committed map is one uid and
\* one gid record; no map file is written twice.
C10_MapIsRealIdToZero ==
    \A p \in PIDs :
        /\ \A r \in procMap[p].uid :
              r.inside = 0 /\ r.count = 1 /\ SameId(r.outside, realUid)
        /\ \A r \in procMap[p].gid :
              r.inside = 0 /\ r.count = 1 /\ SameId(r.outside, realGid)
        /\ Cardinality(procMap[p].uid) <= 1 /\ Cardinality(procMap[p].gid) <= 1
        /\ procMap[p].uidWrites <= 1 /\ procMap[p].gidWrites <= 1
        /\ (procMap[p].uidWrites + procMap[p].gidWrites > 0 =>
              \E i \in Launches : chi[i].pid = Some(p) /\ par[i].pid = Some(p))

C10_Witness ==
    \E i \in Launches :
        /\ MapCommitted(i)
        /\ realUid # realGid
        /\ Cardinality(procMap[par[i].pid[1]].uid) = 1
        /\ Cardinality(procMap[par[i].pid[1]].gid) = 1

----------------------------------------------------------------------------
(* C11 *)

\* C11, as claimed: once a step of write_limits failed (mkdir, an fopen, or
\* the write of cpu.max, memory.max or cgroup.procs), the child has ended by
\* exit with a nonzero code, having neither set the hostname, changed root
\* nor started the program.
C11_LimitFailureIsFatal ==
    \A i \in Launches :
        chi[i].limitFailed =>
            /\ ChildExitedNormally(i)
            /\ WEXITSTATUS(chi[i].wstatus[1]) # 0
            /\ Range(chi[i].done) \cap {"hostname", "chroot", "exec"} = {}
            /\ chi[i].execArgv = None

----------------------------------------------------------------------------
(* C12 *)

\* the child of launch i is alive and has gone through write_limits
PastLimits(i) ==
    /\ "cgroup.procs" \in Range(chi[i].done)
    /\ chi[i].pc # "terminated"

\* C12: with two launches at the same time, a child whose mkdir found the
\* directory already present has ended by exit with a nonzero code without
\* starting its program, and never are the children of both launches alive
\* past write_limits.
C12_OneLimitSetAtATime ==
    /\ \A i \in Launches :
          chi[i].dirPresent =>
              /\ ChildExitedNormally(i)
              /\ WEXITSTATUS(chi[i].wstatus[1]) # 0
              /\ chi[i].execArgv = None
              /\ chi[i].prog = None
    /\ \A i, j \in Launches : (i # j) => ~(PastLimits(i) /\ PastLimits(j))

\* one child runs its program under the limits while the other launch's child
\* found the directory there and ended
C12_Witness ==
    \E i, j \in Launches :
        /\ i # j
        /\ PastLimits(i) /\ chi[i].pc = "running" /\ cg.owner = Some(i)
        /\ chi[j].dirPresent /\ chi[j].pc = "terminated"

----------------------------------------------------------------------------
(* C13 *)

StageOrder == <<"read", "mkdir", "cpu.max", "memory.max", "cgroup.procs",
                "hostname", "chroot", "chdir", "mount", "exec">>

\* the stages the child has completed are the first ones of StageOrder
StagesInOrder(i) ==
    /\ Len(chi[i].done) <= Len(StageOrder)
    /\ chi[i].done = SubSeq(StageOrder, 1, Len(chi[i].done))

\* a stage of the child of launch i failed
StageFailed(i) ==
    \/ chi[i].err # ""
    \/ chi[i].limitFailed
    \/ (chi[i].readRet # None /\ chi[i].readRet # Some(0))

\* C13, as claimed: the child completes its stages in the order gated read,
\* limits, hostname, chroot, chdir, mount, execvp, none twice, and once a
\* stage failed the child has ended by exit with a nonzero code.
C13_StagesInOrderFailureFatal ==
    \A i \in Launches :
        /\ StagesInOrder(i)
        /\ StageFailed(i) => (ChildExitedNormally(i) /\ WEXITSTATUS(chi[i].wstatus[1]) # 0)

----------------------------------------------------------------------------
(* C14 *)

SetupErrors == { "Memory allocation failed for stack",
                 "Failed to create pipe",
                 "Failed to create child process using clone" }

\* C14: when malloc, pipe or clone failed, main has ended with code 1 and
\* the launch has no child: no process id, no map file written for it, no
\* cgroup directory made or removed by it, no program started.
C14_SetupFailureLeavesNoChild ==
    \A i \in Launches :
        par[i].err \in SetupErrors =>
            /\ ParentExited(i)
            /\ par[i].code = Some(1)
            /\ chi[i] = NoChild
            /\ par[i].pid = None
            /\ \A p \in PIDs :
                  procMap[p].uidWrites + procMap[p].gidWrites > 0 =>
                      \E j \in Launches \ {i} : par[j].pid = Some(p)
            /\ cg.owner # Some(i)
            /\ par[i].rmdirCalls = 0

C14_Witness ==
    \E i \in Launches :
        /\ par[i].err = "Failed to create child process using clone"
        /\ ParentExited(i) /\ par[i].stack = "allocated"

----------------------------------------------------------------------------
(* C15 *)

\* C15: the child is past the gate exactly when its read returned 0, which
\* happens only with every write end closed; a read that returned anything
\* else ended the child by exit(1) before mkdir; the pipe never holds a byte.
C15_GateOpensOnEndOfFile ==
    \A i \in Launches :
        /\ par[i].pipeBytes = 0
        /\ PastGate(i) <=> chi[i].readRet = Some(0)
        /\ chi[i].readRet = Some(0) => PipeWriters(i) = {}
        /\ (chi[i].readRet # None /\ chi[i].readRet # Some(0)) =>
              /\ ChildExitedNormally(i)
              /\ WEXITSTATUS(chi[i].wstatus[1]) # 0
              /\ chi[i].done = <<>>
              /\ ~chi[i].created

C15_Witness ==
    \E i \in Launches :
        /\ chi[i].readRet = Some(0) /\ chi[i].pc = "mkdir"
        /\ par[i].pc = "wait" /\ ~par[i].fdW

----------------------------------------------------------------------------
(* C16 *)

\* what main's exit code is when it comes from the wait status alone
CodeOfStatus(status) == IF WIFEXITED(status) THEN WEXITSTATUS(status) ELSE 1

\* what remove_cgroup_directory prints when rmdir fails
RemovalLogs == { "Cgroup directory does not exist.", "Error removing cgroup directory" }

\* C16: when the directory was absent as main called rmdir, whatever errno
\* rmdir gave, main only printed a line: it goes on to free the stack and ends
\* with the code the wait status gives, without a diagnostic when the child
\* exited normally.
C16_AbsentDirectoryOnlyLogged ==
    \A i \in Launches :
        (par[i].rmdirCalls > 0 /\ par[i].absentAtRmdir) =>
            /\ par[i].out \in RemovalLogs
            /\ par[i].rmdirs = 0
            /\ par[i].pc \in {"free", "status", "exited"}
            /\ par[i].status = chi[i].wstatus
            /\ ParentExited(i) =>
                  /\ par[i].stack = "freed"
                  /\ par[i].code = Some(CodeOfStatus(par[i].status[1]))
                  /\ (WIFEXITED(par[i].status[1]) => par[i].err = "")

\* the host refused the child's mkdir and then main's rmdir of the absent
\* directory: main printed the perror line and ended with the child's code
C16_Witness ==
    \E i \in Launches :
        /\ par[i].rmdirCalls > 0 /\ par[i].absentAtRmdir
        /\ par[i].out = "Error removing cgroup directory"
        /\ chi[i].err = "Failed to create cgroup directory"
        /\ ParentExited(i) /\ par[i].code = Some(1) /\ par[i].err = ""

----------------------------------------------------------------------------
(* C17 *)

\* C17: the vector given to the program is the command line after "run":
\* the program name, then every argument, in order.
C17_ArgvPassedVerbatim ==
    \A i \in Launches :
        chi[i].execArgv # None =>
            LET given == chi[i].execArgv[1]
                line == par[i].argv
            IN /\ Len(given) = Len(line) - 2
               /\ \A k \in 1..Len(given) : given[k] = line[k + 2]

C17_Witness ==
    \E i \in Launches : chi[i].execArgv = Some(<<"echo", "a", "b">>)

----------------------------------------------------------------------------
(* C18 *)

\* C18, as claimed: the stack is freed only after the child is reaped and
\* after the decision between normal exit and abnormal termination.
C18_StackFreedAfterStatusHandling ==
    \A i \in Launches :
        par[i].stack = "freed" => (chi[i].reaped /\ par[i].pc # "status")

\* C18, amended: the stack is freed only after the child is reaped and
\* rmdir was called, and before the decision on the wait status: when main
\* looks at WIFEXITED the stack is already freed.
C18_StackFreedBeforeStatusHandling ==
    \A i \in Launches :
        /\ par[i].stack = "freed" =>
              (chi[i].reaped /\ par[i].rmdirCalls = 1 /\ par[i].pc \in {"status", "exited"})
        /\ par[i].pc = "status" => par[i].stack = "freed"

C18_Witness ==
    \E i \in Launches :
        par[i].pc = "status" /\ par[i].stack = "freed" /\ chi[i].reaped

----------------------------------------------------------------------------
(* C19 *)

\* both map files of the child were written and main is about to close the
\* write end of the pipe
HandshakeReady(i) == MapCommitted(i) /\ par[i].pc = "close"

\* a stage of the child did not succeed: it failed, or a signal ended the
\* child before execvp
StageNotPassed(i) ==
    \/ chi[i].err # ""
    \/ ChildKilled(i) /\ chi[i].execArgv = None

\* main reaped the child, called rmdir and ended
OrchestratorDone(i) ==
    /\ chi[i].reaped
    /\ par[i].rmdirCalls > 0
    /\ ParentExited(i)

\* C19, as claimed: once both map writes succeeded, unless a stage of the
\* child fails or a signal ends the child before execvp, the child gets past the read and main reaps it, calls rmdir
\* and ends.
C19_HandshakeCompletes ==
    \A i \in Launches :
        HandshakeReady(i) ~>
            \/ StageNotPassed(i)
            \/ PastGate(i) /\ OrchestratorDone(i)

\* C19, amended: once both map writes succeeded, unless a stage of the child
\* fails or a signal ends the child before execvp, the child gets past the read and main ends: after reaping the child
\* and calling rmdir when waitpid succeeded, with "Failed to wait for child
\* process" and no rmdir when waitpid failed.
C19_HandshakeCompletesWhenReaped ==
    \A i \in Launches :
        HandshakeReady(i) ~>
            \/ StageNotPassed(i)
            \/ PastGate(i) /\ OrchestratorDone(i)
            \/ /\ PastGate(i) /\ ParentExited(i)
               /\ par[i].err = "Failed to wait for child process"
               /\ par[i].rmdirCalls = 0

\* the maps were written, every stage of the child succeeded, the program
\* ended, and main reaped it, called rmdir and ended
C19_Witness ==
    \E i \in Launches :
        /\ MapCommitted(i) /\ PastGate(i) /\ chi[i].err = ""
        /\ chi[i].prog # None
        /\ OrchestratorDone(i)

----------------------------------------------------------------------------
(* C20 *)

\* C20, as claimed: a directory that main removed was made by its own child.
C20_RemovesOnlyOwnDirectory ==
    \A i \in Launches :
        par[i].removed # None => par[i].removed[1] = Some(i)

====
